---- MODULE Spec2Model ----
(***************************************************************************)
(* Model of `popper run` (cli/popper/commands/cmd_run.py): the cli entry   *)
(* point, prepare_workflow_execution, run_workflow with its on_failure     *)
(* fallback, and the CI commit-message directives (parse_commit_message,   *)
(* get_args).  WorkflowRunner, Workflow and the logger live outside this   *)
(* file; what the model assumes of them is stated where they are used.     *)
(***************************************************************************)
EXTENDS Integers, Sequences, FiniteSets, TLC

(* ------------------------------ bounds --------------------------------- *)
\* largest process exit code a runner invocation ends with
MaxCode == 2
\* largest number of workflow files find_recursive_wfile discovers
MaxFiles == 2
\* largest number of pieces a commit message is put together from
MaxChunks == 2

(* ------------------------------ values --------------------------------- *)
\* Python's None
None == "None"

\* truthiness of an optional string (None and '' are falsy)
Truthy(x) == x # None /\ x # ""

\* the value of exit_status while the process has not ended
Running == 0 - 1

(* --------------------- the workflow being executed --------------------- *)
\* the action nodes of the workflow files and their direct dependencies
Nodes == {"build", "test", "notify"}

Needs == [n \in Nodes |->
            CASE n = "build"  -> {}
              [] n = "test"   -> {"build"}
              [] n = "notify" -> {"build"}]

RECURSIVE Closure(_)
\* an action together with its transitive dependencies
Closure(S) ==
    LET T == S \cup UNION {Needs[n] : n \in S \cap Nodes}
    IN  IF T = S THEN S ELSE Closure(T)

\* WorkflowRunner.run step 1: the node subset a (target, with_dependencies)
\* pair resolves to
ResolveSubset(action, with_dependencies) ==
    IF ~Truthy(action) THEN Nodes
    ELSE IF with_dependencies THEN Closure({action})
    ELSE {action}

\* the ways one WorkflowRunner.run invocation ends: it returns, or the
\* process is asked to exit (SystemExit) with a code; an exit with code 0 is
\* a success, a nonzero one ends the run Failed or Aborted (cancellation)
Outcomes ==
    {[state |-> "Succeeded", raised |-> FALSE, code |-> 0],
     [state |-> "Succeeded", raised |-> TRUE,  code |-> 0]}
    \cup [state : {"Failed", "Aborted"}, raised : {TRUE}, code : 1..MaxCode]

(* ------------------------------ options -------------------------------- *)
\* the options run_workflow hands through untouched, drawn as bundles
OtherOpts ==
    {[dry_run |-> FALSE, reuse |-> FALSE, skip_clone |-> FALSE,
      skip_pull |-> FALSE, runtime |-> "docker", workspace |-> "/repo",
      quiet |-> FALSE, debug |-> FALSE, log_file |-> None],
     [dry_run |-> TRUE, reuse |-> TRUE, skip_clone |-> TRUE,
      skip_pull |-> TRUE, runtime |-> "singularity", workspace |-> "/ws",
      quiet |-> TRUE, debug |-> TRUE, log_file |-> "popper.log"]}

\* the parameters click gives cli when nothing is passed (lines 15-113)
Defaults ==
    [target |-> None, debug |-> FALSE, dry_run |-> FALSE, log_file |-> None,
     on_failure |-> None, parallel |-> FALSE, quiet |-> FALSE,
     recursive |-> FALSE, reuse |-> FALSE, runtime |-> "docker",
     skip |-> <<>>, skip_clone |-> FALSE, skip_pull |-> FALSE,
     with_dependencies |-> FALSE, workspace |-> "/repo"]

\* a command line: the options that steer cmd_run joined with a bundle
MkKwargs(t, f, s, w, r, p, o) ==
    [target |-> t, debug |-> o.debug, dry_run |-> o.dry_run,
     log_file |-> o.log_file, on_failure |-> f, parallel |-> p,
     quiet |-> o.quiet, recursive |-> r, reuse |-> o.reuse,
     runtime |-> o.runtime, skip |-> s, skip_clone |-> o.skip_clone,
     skip_pull |-> o.skip_pull, with_dependencies |-> w,
     workspace |-> o.workspace]

Targets == {None, "ci.workflow", "test"}
OnFailures == {None, "notify"}
Skips == {<<>>, <<"build">>}

AllKwargs ==
    {MkKwargs(t, f, s, w, r, p, o) :
        t \in Targets, f \in OnFailures, s \in Skips, w \in BOOLEAN,
        r \in BOOLEAN, p \in BOOLEAN, o \in OtherOpts}

(* ----------------------- the head commit (CI) -------------------------- *)
\* lexemes of a commit message: the directive opener `popper:run[`, the
\* closer `]`, and words; inside a directive the words are space separated
OPEN == "popper:run["
CLOSE == "]"

\* the option strings written inside popper:run[...] directives
Directives ==
    {<<"test">>, <<"--recursive">>, <<"ci.workflow", "--with-dependencies">>,
     <<"test", "ci.workflow">>}

\* the pieces commit messages are put together from: plain text, stray
\* delimiters, whole directives
Chunks ==
    {<<"fix">>, <<OPEN>>, <<CLOSE>>} \cup {<<OPEN>> \o d \o <<CLOSE>> : d \in Directives}

RECURSIVE MsgsOf(_)
MsgsOf(n) ==
    IF n = 0 THEN {<<>>}
    ELSE LET P == MsgsOf(n - 1) IN P \cup {m \o c : m \in P, c \in Chunks}

Msgs == MsgsOf(MaxChunks)

\* messages of second parents of merge commits
ParentMsgs == {<<"fix">>, <<OPEN, "test", CLOSE>>}

\* what scm.get_head_commit() returns: None (present = FALSE), or a commit
\* with its message, whether the text holds the word 'Merge', and its
\* parents' messages
NoCommit == [present |-> FALSE, message |-> <<>>, merge |-> FALSE, parents |-> <<>>]

Commits ==
    {NoCommit}
    \cup {[present |-> TRUE, message |-> m, merge |-> FALSE, parents |-> <<>>] :
            m \in Msgs}
    \cup {[present |-> TRUE, message |-> m, merge |-> TRUE, parents |-> ps] :
            m \in {<<"fix">>, <<OPEN, "--recursive", CLOSE>>},
            ps \in {<<m1>> : m1 \in ParentMsgs}
                   \cup {<<m1, m2>> : m1 \in {<<"fix">>}, m2 \in ParentMsgs}}

\* the index of the first CLOSE at or after j, 0 when there is none
RECURSIVE FirstClose(_, _)
FirstClose(msg, j) ==
    IF j > Len(msg) THEN 0
    ELSE IF msg[j] = CLOSE THEN j
    ELSE FirstClose(msg, j + 1)

\* re.findall(r'popper:run\[(.+?)\]', msg): leftmost matches, each taking at
\* least one lexeme and ending at the first closer after it
RECURSIVE FindAll(_, _)
FindAll(msg, i) ==
    IF i > Len(msg) THEN <<>>
    ELSE IF msg[i] # OPEN THEN FindAll(msg, i + 1)
    ELSE LET j == FirstClose(msg, i + 2)
         IN  IF j = 0 THEN FindAll(msg, i + 1)
             ELSE <<SubSeq(msg, i + 1, j - 1)>> \o FindAll(msg, j + 1)

\* the value None of parse_commit_message
NoInstances == [is_none |-> TRUE, list |-> <<>>]

\* lines 264-282
parse_commit_message(head_commit) ==
    IF ~head_commit.present THEN NoInstances
    ELSE LET msg == IF head_commit.merge /\ Len(head_commit.parents) = 2
                    THEN head_commit.parents[2]
                    ELSE head_commit.message
         IN  IF ~(\E i \in 1..Len(msg) : msg[i] = OPEN) THEN NoInstances
             ELSE [is_none |-> FALSE, list |-> FindAll(msg, 1)]

\* the exit status click ends the process with on a usage error
UsageErrorCode == 2

\* cli.make_context('popper run', args): the parameters an argument list
\* parses to; ok is FALSE on a usage error (a second positional argument)
RECURSIVE make_context(_, _)
make_context(args, params) ==
    IF args = <<>> THEN [ok |-> TRUE, params |-> params]
    ELSE LET a == Head(args) IN
         IF a = "--recursive"
         THEN make_context(Tail(args), [params EXCEPT !.recursive = TRUE])
         ELSE IF a = "--with-dependencies"
         THEN make_context(Tail(args), [params EXCEPT !.with_dependencies = TRUE])
         ELSE IF params.target # None THEN [ok |-> FALSE, params |-> params]
         ELSE make_context(Tail(args), [params EXCEPT !.target = a])

\* get_args, one step of the generator: lines 288-291
get_args(instance) == make_context(instance, Defaults)

(* --------------------------- run_workflow ------------------------------ *)
\* log.fail logs its message and ends the process (sys.exit) with this status
FailCode == 1

\* line 238
DepsWithoutAction(action, kw) == kw.with_dependencies /\ ~Truthy(action)

\* the check of line 242 left out
SkipConflict_off(action, kw) == FALSE

\* line 242
SkipConflict(action, kw) == Len(kw.skip) > 0 /\ Truthy(action)

\* line 233
ParallelUnsupported(kw, major) == kw.parallel /\ major < 3

\* line 251 without its test of on_failure
FallbackTriggered_any(code, on_failure) == code # 0

\* line 251
FallbackTriggered(code, on_failure) == code # 0 /\ Truthy(on_failure)

\* line 252 left out: the skip set is kept
FallbackKwargs_keepskip(kw) == kw

\* line 252 also resetting the dependency flag
FallbackKwargs_nodeps(kw) == [kw EXCEPT !.skip = <<>>, !.with_dependencies = FALSE]

\* line 252
FallbackKwargs(kw) == [kw EXCEPT !.skip = <<>>]

\* line 253 left out: the target is kept
FallbackAction_keep(action, on_failure) == action

\* line 253
FallbackAction(action, on_failure) == on_failure

\* line 208
RecursiveConflict(kw) ==
    \/ Truthy(kw.target)
    \/ kw.with_dependencies
    \/ Len(kw.skip) > 0
    \/ Truthy(kw.on_failure)

\* target.endswith('.workflow'), over the strings of the model
EndsWithWorkflow(target) ==
    target \in {"ci.workflow", "main.workflow", "a.workflow", "b.workflow", "c.workflow"}

\* inspect_target, lines 176-183; pu.find_default_wfile gives back the path
\* it is handed, or the default workflow
inspect_target(target) ==
    IF Truthy(target)
    THEN IF EndsWithWorkflow(target)
         THEN [wfile |-> target, action |-> None]
         ELSE [wfile |-> "main.workflow", action |-> target]
    ELSE [wfile |-> "main.workflow", action |-> target]

\* what pu.find_recursive_wfile() can yield: the workflow files found, in
\* some order
WFiles == {"a.workflow", "b.workflow", "c.workflow"}

FileLists ==
    {fl \in UNION {[1..n -> WFiles] : n \in 0..MaxFiles} :
        \A i, j \in DOMAIN fl : i # j => fl[i] # fl[j]}

VARIABLES
    py_major,         \* sys.version_info[0]
    pc,               \* where the process is
    ci,               \* how cli branched: "unset", "off", "instances", "recursive"
    instances,        \* what parse_commit_message returned
    queue,            \* the run instances get_args has not yielded yet
    kwargs,           \* cli's kwargs (updated per CI run instance)
    searched,         \* whether pu.find_recursive_wfile() was called
    found,            \* what pu.find_recursive_wfile() yielded
    requests,         \* every run_workflow call so far, with its arguments
    todo,             \* the run_workflow calls prepare_workflow_execution still makes
    pkw,              \* prepare_workflow_execution's kwargs after its pops
    frame,            \* run_workflow's locals
    calls,            \* every wf_runner.run invocation so far
    log,              \* what was logged
    level,            \* the logger's level
    interrupt_params, \* popper.cli.interrupt_params
    nwf,              \* Workflow/WorkflowRunner objects constructed so far
    exit_status       \* the process exit status, Running until it ends

vars == <<py_major, pc, ci, instances, queue, kwargs, searched, found,
          requests, todo, pkw, frame, calls, log, level, interrupt_params,
          nwf, exit_status>>

\* the kwargs left after prepare_workflow_execution's pops (lines 196-202)
Popped(kw) ==
    [dry_run |-> kw.dry_run, on_failure |-> kw.on_failure,
     parallel |-> kw.parallel, reuse |-> kw.reuse, runtime |-> kw.runtime,
     skip |-> kw.skip, skip_clone |-> kw.skip_clone,
     skip_pull |-> kw.skip_pull,
     with_dependencies |-> kw.with_dependencies, workspace |-> kw.workspace]

\* kwargs.pop('on_failure'), line 246
WithoutOnFailure(kw) ==
    [dry_run |-> kw.dry_run, parallel |-> kw.parallel, reuse |-> kw.reuse,
     runtime |-> kw.runtime, skip |-> kw.skip, skip_clone |-> kw.skip_clone,
     skip_pull |-> kw.skip_pull,
     with_dependencies |-> kw.with_dependencies, workspace |-> kw.workspace]

NoFrame ==
    [run |-> 0, wfile |-> None, action |-> None, wf |-> 0, runner |-> 0,
     kwargs |-> WithoutOnFailure(Defaults), on_failure |-> None]

\* a log record; run is the run_workflow call it was written in, 0 outside
Msg(lvl, text, arg, run) == [lvl |-> lvl, text |-> text, arg |-> arg, run |-> run]

Init ==
    /\ py_major \in {2, 3}
    /\ kwargs \in AllKwargs
    /\ pc = "cli"
    /\ ci = "unset"
    /\ instances = NoInstances
    /\ queue = <<>>
    /\ searched = FALSE
    /\ found = <<>>
    /\ requests = <<>>
    /\ todo = <<>>
    /\ pkw = Popped(Defaults)
    /\ frame = NoFrame
    /\ calls = <<>>
    /\ log = <<>>
    /\ level = "NOTSET"
    /\ interrupt_params = [parallel |-> FALSE]
    /\ nwf = 0
    /\ exit_status = Running

\* SystemExit(code) reaches the top of the process
Exit(code) ==
    /\ pc' = "done"
    /\ exit_status' = code

\* kwargs.update(args), line 157
Update(kw, args) ==
    [k \in DOMAIN kw |-> IF k \in DOMAIN args THEN args[k] ELSE kw[k]]

\* lines 151-169, up to the first call of prepare_workflow_execution
cli ==
    /\ pc = "cli"
    /\ \E CI \in BOOLEAN :
        IF CI
        THEN \E head_commit \in Commits :
             LET popper_run_instances == parse_commit_message(head_commit) IN
             /\ instances' = popper_run_instances
             /\ log' = Append(log, Msg("info", "Running in CI environment...", None, 0))
             /\ IF Len(popper_run_instances.list) > 0
                THEN /\ ci' = "instances"
                     /\ queue' = popper_run_instances.list
                     /\ pc' = "get_args"
                     /\ UNCHANGED kwargs
                ELSE /\ ci' = "recursive"
                     /\ kwargs' = [kwargs EXCEPT !.recursive = TRUE]
                     /\ pc' = "prepare"
                     /\ UNCHANGED queue
        ELSE /\ ci' = "off"
             /\ pc' = "prepare"
             /\ UNCHANGED <<instances, queue, kwargs, log>>
    /\ UNCHANGED <<py_major, searched, found, requests, todo, pkw, frame,
                   calls, level, interrupt_params, nwf, exit_status>>

\* lines 156-160: the loop takes the next run instance
ci_instance ==
    /\ pc = "get_args"
    /\ queue # <<>>
    /\ LET ctx == get_args(Head(queue)) IN
       IF ~ctx.ok
       THEN /\ Exit(UsageErrorCode)
            /\ UNCHANGED <<queue, kwargs, log>>
       ELSE /\ queue' = Tail(queue)
            /\ kwargs' = [Update(kwargs, ctx.params) EXCEPT !.recursive = FALSE]
            /\ log' = IF ctx.params.recursive
                      THEN Append(log, Msg("warn", "When CI is set, --recursive is ignored.", None, 0))
                      ELSE log
            /\ pc' = "prepare"
            /\ UNCHANGED exit_status
    /\ UNCHANGED <<py_major, ci, instances, searched, found, requests, todo,
                   pkw, frame, calls, level, interrupt_params, nwf>>

\* prepare_workflow_execution returns to cli: the next run instance, or the
\* end of the process with status 0
Return ==
    IF queue # <<>>
    THEN pc' = "get_args" /\ UNCHANGED exit_status
    ELSE Exit(0)

\* lines 186-190
LogLevel(kw) ==
    IF kw.debug THEN "DEBUG" ELSE IF kw.quiet THEN "INFO" ELSE "ACTION_INFO"

\* lines 172-218, up to the first call of run_workflow
prepare_workflow_execution ==
    /\ pc = "prepare"
    /\ level' = LogLevel(kwargs)
    /\ pkw' = Popped(kwargs)
    /\ LET target == kwargs.target
           added == IF Truthy(kwargs.log_file)
                    THEN Append(log, Msg("add_log", "", kwargs.log_file, 0))
                    ELSE log
       IN
       IF kwargs.recursive
       THEN IF RecursiveConflict(kwargs)
            THEN /\ log' = Append(added, Msg("fail", "invalid in recursive mode", None, 0))
                 /\ Exit(FailCode)
                 /\ UNCHANGED <<searched, found, todo>>
            ELSE \E fl \in FileLists :
                 /\ searched' = TRUE
                 /\ found' = fl
                 /\ todo' = [i \in DOMAIN fl |-> [wfile |-> fl[i], action |-> target]]
                 /\ log' = added
                 /\ IF fl = <<>>
                    THEN Return
                    ELSE pc' = "run_workflow" /\ UNCHANGED exit_status
       ELSE /\ todo' = <<inspect_target(target)>>
            /\ log' = added
            /\ pc' = "run_workflow"
            /\ UNCHANGED <<searched, found, exit_status>>
    /\ UNCHANGED <<py_major, ci, instances, queue, kwargs, requests, frame,
                   calls, interrupt_params, nwf>>

\* lines 221-246: run_workflow up to the try
run_workflow ==
    /\ pc = "run_workflow"
    /\ todo # <<>>
    /\ LET wfile == Head(todo).wfile
           action == Head(todo).action
           run == Len(requests) + 1
           info == Append(log, Msg("info", "Found and running workflow at", wfile, run))
       IN
       /\ requests' = Append(requests, [wfile |-> wfile, action |-> action, kwargs |-> pkw])
       /\ \E parsed \in BOOLEAN :
           IF ~parsed
           THEN \* Workflow(wfile) rejects the file
                /\ log' = Append(info, Msg("fail", "workflow validation", wfile, run))
                /\ Exit(FailCode)
                /\ UNCHANGED <<frame, interrupt_params, nwf>>
           ELSE /\ nwf' = nwf + 1
                /\ interrupt_params' = [parallel |-> pkw.parallel]
                /\ IF ParallelUnsupported(pkw, py_major)
                   THEN /\ log' = Append(info, Msg("fail", "--parallel is only supported on Python3", None, run))
                        /\ Exit(FailCode)
                        /\ UNCHANGED frame
                   ELSE LET warned == IF pkw.parallel
                                      THEN Append(info, Msg("warn", "Using --parallel may result in interleaved output.", None, run))
                                      ELSE info
                        IN
                        IF DepsWithoutAction(action, pkw)
                        THEN /\ log' = Append(warned, Msg("fail", "--with-dependencies can be used only with action argument.", None, run))
                             /\ Exit(FailCode)
                             /\ UNCHANGED frame
                        ELSE IF SkipConflict(action, pkw)
                        THEN /\ log' = Append(warned, Msg("fail", "--skip can't be used when action argument is passed.", None, run))
                             /\ Exit(FailCode)
                             /\ UNCHANGED frame
                        ELSE /\ log' = warned
                             /\ frame' = [run |-> run, wfile |-> wfile, action |-> action,
                                          wf |-> nwf + 1, runner |-> nwf + 1,
                                          kwargs |-> WithoutOnFailure(pkw),
                                          on_failure |-> pkw.on_failure]
                             /\ pc' = "primary"
                             /\ UNCHANGED exit_status
    /\ UNCHANGED <<py_major, ci, instances, queue, kwargs, searched, found,
                   todo, pkw, calls, level>>

\* one wf_runner.run(action, **kwargs) invocation as the runner sees it
Call(phase, o) ==
    [phase |-> phase, run |-> frame.run, on_failure |-> frame.on_failure,
     runner |-> frame.runner, wf |-> frame.wf,
     wfile |-> frame.wfile, action |-> frame.action, kwargs |-> frame.kwargs,
     subset |-> ResolveSubset(frame.action, frame.kwargs.with_dependencies),
     outcome |-> o]

\* lines 248-256: the primary wf_runner.run and its except clause
primary_run ==
    /\ pc = "primary"
    /\ \E o \in Outcomes :
        /\ calls' = Append(calls, Call("primary", o))
        /\ IF ~o.raised
           THEN /\ pc' = "report"
                /\ UNCHANGED <<frame, exit_status>>
           ELSE IF FallbackTriggered(o.code, frame.on_failure)
           THEN /\ frame' = [frame EXCEPT
                                !.kwargs = FallbackKwargs(frame.kwargs),
                                !.action = FallbackAction(frame.action, frame.on_failure)]
                /\ pc' = "fallback"
                /\ UNCHANGED exit_status
           ELSE /\ Exit(o.code)
                /\ UNCHANGED frame
    /\ UNCHANGED <<py_major, ci, instances, queue, kwargs, searched, found,
                   requests, todo, pkw, log, level, interrupt_params, nwf>>

\* line 254: the fallback wf_runner.run, inside the except clause
fallback_run ==
    /\ pc = "fallback"
    /\ \E o \in Outcomes :
        /\ calls' = Append(calls, Call("fallback", o))
        /\ IF ~o.raised
           THEN pc' = "report" /\ UNCHANGED exit_status
           ELSE Exit(o.code)
    /\ UNCHANGED <<py_major, ci, instances, queue, kwargs, searched, found,
                   requests, todo, pkw, frame, log, level, interrupt_params,
                   nwf>>

\* lines 258-261, and the return into the loop of line 214 or 156
report ==
    /\ pc = "report"
    /\ log' = Append(log,
                IF Truthy(frame.action)
                THEN Msg("info", "Action finished successfully.", frame.action, frame.run)
                ELSE Msg("info", "Workflow finished successfully.", frame.wfile, frame.run))
    /\ todo' = Tail(todo)
    /\ IF Tail(todo) # <<>>
       THEN pc' = "run_workflow" /\ UNCHANGED exit_status
       ELSE Return
    /\ UNCHANGED <<py_major, ci, instances, queue, kwargs, searched, found,
                   requests, pkw, frame, calls, level, interrupt_params, nwf>>

Next ==
    \/ cli
    \/ ci_instance
    \/ prepare_workflow_execution
    \/ run_workflow
    \/ primary_run
    \/ fallback_run
    \/ report

Spec == Init /\ [][Next]_vars

(* ------------------------------ claims --------------------------------- *)
Failed(o) == o.raised /\ o.code # 0

CallsOf(run) == {j \in DOMAIN calls : calls[j].run = run}

\* the success message of lines 258-261 was logged in this run_workflow call
Reported(run) ==
    \E k \in DOMAIN log :
        /\ log[k].run = run
        /\ log[k].text \in {"Action finished successfully.", "Workflow finished successfully."}

\* this run_workflow call is the last thing the process had to do: no later
\* call was made and no run instance is left unread
LastWork(run) == run = Len(requests) /\ queue = <<>>

\* the fallback of this run_workflow call is decided but has not run yet
FallbackPending(run) == pc = "fallback" /\ frame.run = run

\* C1: the runner is invoked a second time exactly when the primary run
\* ended with a nonzero exit status and an on_failure action F is configured;
\* then it is invoked exactly once more, right after the primary run, with
\* target F and an empty skip set; otherwise never; and a fallback is never
\* followed by another invocation in the same run_workflow call.
C1_FallbackExactlyWhenDue ==
    /\ \A i \in DOMAIN calls :
        calls[i].phase = "primary" =>
            LET c == calls[i]
                later == CallsOf(c.run) \ {i}
            IN  IF Failed(c.outcome) /\ Truthy(c.on_failure)
                THEN /\ later = IF FallbackPending(c.run) THEN {} ELSE {i + 1}
                     /\ \A j \in later :
                            /\ calls[j].phase = "fallback"
                            /\ calls[j].action = c.on_failure
                            /\ calls[j].kwargs.skip = <<>>
                ELSE later = {} /\ ~FallbackPending(c.run)
    /\ \A j \in DOMAIN calls :
        calls[j].phase = "fallback" =>
            /\ j > 1
            /\ calls[j - 1].phase = "primary"
            /\ calls[j - 1].run = calls[j].run

\* a primary run that skipped an action failed, the fallback ran and failed
C1_Witness ==
    /\ pc = "done"
    /\ \E j \in DOMAIN calls :
        /\ calls[j].phase = "fallback"
        /\ Failed(calls[j].outcome)
        /\ Len(calls[j - 1].kwargs.skip) > 0

\* C2: when the primary run failed and on_failure F ran, the run ends with
\* F's outcome: if F exits with a code the process ends with exactly that
\* code and no success is reported; if F returns, run_workflow reports
\* 'Action F finished successfully' and returns, and a process with nothing
\* left to run after it ends with status 0.
C2_FinalStatusIsFallbacks ==
    \A j \in DOMAIN calls :
        calls[j].phase = "fallback" =>
            LET f == calls[j]
                o == f.outcome
            IN  /\ Failed(calls[j - 1].outcome)
                /\ o.raised =>
                    /\ pc = "done"
                    /\ j = Len(calls)
                    /\ exit_status = o.code
                    /\ ~Reported(f.run)
                /\ ~o.raised =>
                    /\ \/ pc = "report" /\ frame.run = f.run
                       \/ \E k \in DOMAIN log :
                            log[k] = Msg("info", "Action finished successfully.",
                                         f.on_failure, f.run)
                    /\ (pc = "done" /\ LastWork(f.run)) => exit_status = 0

\* the fallback recovered a failed primary run and the process ended
C2_Witness ==
    /\ pc = "done"
    /\ exit_status = 0
    /\ Len(calls) = 2
    /\ calls[2].phase = "fallback"
    /\ calls[1].outcome.code = MaxCode

\* C4: with no on_failure action, a primary run that exits with code c ends
\* the process with exactly c, nothing else is run and no success message is
\* logged; a primary run that returns is reported as a success and a process
\* with nothing left to run after it ends with status 0.
C4_NoFallbackNoRecovery ==
    \A i \in DOMAIN calls :
        (calls[i].phase = "primary" /\ ~Truthy(calls[i].on_failure)) =>
            LET c == calls[i]
                o == c.outcome
            IN  /\ CallsOf(c.run) = {i}
                /\ o.raised =>
                    /\ pc = "done"
                    /\ i = Len(calls)
                    /\ exit_status = o.code
                    /\ ~Reported(c.run)
                /\ ~o.raised =>
                    /\ (pc = "report" /\ frame.run = c.run) \/ Reported(c.run)
                    /\ (pc = "done" /\ LastWork(c.run)) => exit_status = 0
                /\ (pc = "done" /\ LastWork(c.run) /\ exit_status = 0) => ~Failed(o)

\* a primary run without fallback failed with the largest code
C4_Witness ==
    /\ pc = "done"
    /\ exit_status = MaxCode
    /\ Len(calls) = 1
    /\ ~Truthy(calls[1].on_failure)

\* the requests run_workflow rejects: a skip set with an action target, or
\* with_dependencies without an action target
Rejected(q) ==
    \/ Len(q.kwargs.skip) > 0 /\ Truthy(q.action)
    \/ q.kwargs.with_dependencies /\ ~Truthy(q.action)

\* C5: a run_workflow call whose request is rejected by validation fails
\* (the process ends there with a nonzero status) and wf_runner.run is
\* never invoked for it, neither for the primary target nor for the fallback.
C5_RejectedNeverRuns ==
    \A r \in DOMAIN requests :
        Rejected(requests[r]) =>
            /\ CallsOf(r) = {}
            /\ pc = "done"
            /\ r = Len(requests)
            /\ exit_status \notin {Running, 0}
            /\ frame.run # r

\* a skip set with an action target and on_failure was rejected
C5_Witness ==
    /\ pc = "done"
    /\ \E r \in DOMAIN requests :
        /\ Len(requests[r].kwargs.skip) > 0
        /\ Truthy(requests[r].action)
        /\ Truthy(requests[r].kwargs.on_failure)
        /\ nwf = r

\* C10: the fallback invocation differs from the primary one only in target
\* and skip set: same run_workflow call, same Workflow and WorkflowRunner
\* objects (one of each per call), and every other option unchanged.
C10_FallbackFrame ==
    /\ nwf <= Len(requests)
    /\ \A j \in DOMAIN calls :
        calls[j].phase = "fallback" =>
            LET f == calls[j]
                p == calls[j - 1]
            IN  /\ p.phase = "primary" /\ p.run = f.run
                /\ f.wf = p.wf /\ f.runner = p.runner /\ f.wfile = p.wfile
                /\ DOMAIN f.kwargs = DOMAIN p.kwargs
                /\ \A k \in DOMAIN p.kwargs \ {"skip"} : f.kwargs[k] = p.kwargs[k]
                /\ \A k \in {"parallel", "reuse", "dry_run", "skip_pull", "skip_clone",
                             "runtime", "workspace", "with_dependencies"} :
                        f.kwargs[k] = requests[f.run].kwargs[k]

\* a fallback ran after a primary run with with_dependencies and the second
\* option bundle
C10_Witness ==
    \E j \in DOMAIN calls :
        /\ calls[j].phase = "fallback"
        /\ calls[j].kwargs.with_dependencies
        /\ calls[j].kwargs.runtime = "singularity"
        /\ calls[j].kwargs.parallel

\* the recursive loop of line 214 was entered and none of its run_workflow
\* calls was stopped before its primary run or ended by an exit with status 0
RecursiveRan ==
    /\ kwargs.recursive
    /\ searched
    /\ \A r \in DOMAIN requests : CallsOf(r) # {}
    /\ \A j \in DOMAIN calls : calls[j].outcome.raised => calls[j].outcome.code # 0

\* C3: in recursive mode the runner is invoked once per discovered file,
\* whatever the outcomes of the earlier files, and the process exit status
\* is nonzero exactly when at least one file failed.
C3_RecursiveRunsEveryFile ==
    (pc = "done" /\ RecursiveRan) =>
        /\ Len(requests) = Len(found)
        /\ \A i \in DOMAIN found :
            \E j \in DOMAIN calls : calls[j].wfile = found[i] /\ calls[j].run = i
        /\ exit_status # 0 <=> \E j \in DOMAIN calls : Failed(calls[j].outcome)

\* C6: the fallback invocation resolves the node subset {fallback} only.
C6_FallbackRunsAlone ==
    \A j \in DOMAIN calls :
        calls[j].phase = "fallback" => calls[j].subset = {calls[j].on_failure}

\* C7: a run that ends by cancellation (Aborted) never triggers the
\* on_failure fallback.
C7_AbortedNoFallback ==
    \A i \in DOMAIN calls :
        calls[i].outcome.state = "Aborted" =>
            /\ ~FallbackPending(calls[i].run)
            /\ \A j \in CallsOf(calls[i].run) : j <= i

\* C8: --on-failure, --skip and --with-dependencies given together with
\* --recursive are ignored: the workflow files are still searched and run as
\* whole workflows with no skip set, no dependency flag and no fallback.
C8_RecursiveIgnoresFlags ==
    (/\ pc = "done"
     /\ ci = "off"
     /\ kwargs.recursive
     /\ ~Truthy(kwargs.target)
     /\ Truthy(kwargs.on_failure) \/ Len(kwargs.skip) > 0 \/ kwargs.with_dependencies) =>
        /\ searched
        /\ found # <<>> => requests # <<>>
        /\ \A r \in DOMAIN requests :
            /\ ~Truthy(requests[r].action)
            /\ requests[r].kwargs.skip = <<>>
            /\ ~requests[r].kwargs.with_dependencies
            /\ ~Truthy(requests[r].kwargs.on_failure)

\* C9: when CI is set and the commit message holds run instances, exactly
\* one run is made per instance, in order, with that instance's options and
\* not recursively; with no instance, the workflow files are searched and
\* run recursively whatever the command line held.
C9_CIRuns ==
    (pc = "done" /\ ci \in {"instances", "recursive"}) =>
        IF Len(instances.list) > 0
        THEN /\ ~searched
             /\ Len(requests) = Len(instances.list)
             /\ \A i \in DOMAIN requests :
                 LET ctx == get_args(instances.list[i])
                 IN  /\ ctx.ok
                     /\ requests[i].kwargs = Popped(ctx.params)
                     /\ requests[i].wfile = inspect_target(ctx.params.target).wfile
                     /\ requests[i].action = inspect_target(ctx.params.target).action
        ELSE /\ searched
             /\ found # <<>> => requests # <<>>

====
